---- MODULE Spec2Model ----
(***************************************************************************)
(* Channel-request codec of ssh3 (src/message/channel_request.go).         *)
(*                                                                         *)
(* Bytes are integers 0..255, strings are sequences of bytes, a buffer is  *)
(* a sequence of bytes (a Go slice), and a stream is a byte sequence with  *)
(* a cursor.  Every Write method becomes an operator from a slice to the   *)
(* count, the error and the slice's new contents; every Parse function an  *)
(* operator from a stream to the error, the payload and the stream's new   *)
(* cursor.                                                                 *)
(***************************************************************************)
EXTENDS Integers, Sequences, FiniteSets, TLC

VARIABLES
    op,       \* the operation that ran last
    req,      \* the payload or envelope the last Write was called on
    buf0,     \* the buffer the last Write was given
    buf,      \* that buffer after the Write
    wres,     \* the Write's return values [n, err]
    sent,     \* what the peer encoded onto the stream: [tag, flag, payload, boolByte]
    cut,      \* how many bytes of that encoding are missing at the end of the stream
    rd,       \* the caller's stream (io.Reader) [data, pos, chunk]
    results   \* what the Parse calls on the stream returned so far, in order

vars == <<op, req, buf0, buf, wres, sent, cut, rd, results>>

-----------------------------------------------------------------------------
(* Bounds of the model.                                                    *)

MaxStrLen == 2      \* longest string field
MaxSlack == 1       \* bytes a buffer may have beyond Length()
MaxChunk == 2       \* the short-read sizes tried for the caller's stream

\* one string of every length: "", "a", "ab", "abc", ...
Strs == {[i \in 1..k |-> 96 + i] : k \in 0..MaxStrLen}
FillBytes == {0, 120}                               \* what a buffer holds before Write

\* The boundary values of the four varint width classes (TLC integers are
\* 32 bits wide, so the 8-byte class is represented by 2^30 alone).
VarIntVals == {0, 63, 64, 16383, 16384, 1073741823, 1073741824}
Dims == {<<80, 24, 640, 480>>, <<0, 63, 64, 16383>>,
         <<16384, 1073741823, 1073741824, 1>>}

-----------------------------------------------------------------------------
(* Errors.                                                                 *)

NoErr == "nil"
ErrShortBuffer == "buffer too small"
ErrTruncated == "Truncated"                 \* util: not enough bytes for a field
ErrEOF == "EOF"                             \* io.EOF of encoding/binary.Read
ErrAdvanceTooFar == "bufio: tried to advance past end of input"
ErrInvalidType == "invalid request message type"

Nil == [type |-> "nil"]

Min(a, b) == IF a < b THEN a ELSE b

-----------------------------------------------------------------------------
(* util: the primitive codec (length-prefixed strings, varints).           *)

RECURSIVE BytesBE(_, _)
\* v as n big-endian bytes
BytesBE(v, n) == IF n = 0 THEN <<>> ELSE Append(BytesBE(v \div 256, n - 1), v % 256)

SSHStringLen(s) == 4 + Len(s)

\* writes the 4-byte big-endian length and the bytes at the start of b
WriteSSHString(b, s) ==
    IF Len(b) < SSHStringLen(s)
    THEN [n |-> 0, err |-> ErrShortBuffer, buf |-> b]
    ELSE [n |-> SSHStringLen(s), err |-> NoErr,
          buf |-> BytesBE(Len(s), 4) \o s \o SubSeq(b, SSHStringLen(s) + 1, Len(b))]

VarIntLen(v) ==
    IF v < 64 THEN 1 ELSE IF v < 16384 THEN 2 ELSE IF v < 1073741824 THEN 4 ELSE 8

VarIntClass(v) ==
    IF v < 64 THEN 0 ELSE IF v < 16384 THEN 1 ELSE IF v < 1073741824 THEN 2 ELSE 3

\* returns b extended by the encoding of v; b itself is not changed
AppendVarInt(b, v) ==
    LET raw == BytesBE(v, VarIntLen(v))
    IN  b \o <<raw[1] + 64 * VarIntClass(v)>> \o SubSeq(raw, 2, Len(raw))

\* Go's copy(dst, src): the number of bytes copied and dst afterwards
Copy(dst, src) ==
    LET k == Min(Len(dst), Len(src))
    IN  [n |-> k, buf |-> SubSeq(src, 1, k) \o SubSeq(dst, k + 1, Len(dst))]

\* the slice b after its tail b[off:] became sub
Splice(b, off, sub) == SubSeq(b, 1, off) \o sub

BoolByte(x) == IF x THEN 1 ELSE 0

\* the tail b[off:] of a slice
Slice(b, off) == SubSeq(b, off + 1, Len(b))

WriteFailed(e, b) == [n |-> 0, err |-> e, buf |-> b]

-----------------------------------------------------------------------------
(* The request-type tags, as the bytes of their ASCII strings.             *)

TagPtyReq == <<112, 116, 121, 45, 114, 101, 113>>                       \* "pty-req"
TagX11Req == <<120, 49, 49, 45, 114, 101, 113>>                         \* "x11-req"
TagShell == <<115, 104, 101, 108, 108>>                                 \* "shell"
TagExec == <<101, 120, 101, 99>>                                        \* "exec"
TagSubsystem == <<115, 117, 98, 115, 121, 115, 116, 101, 109>>          \* "subsystem"
TagWindowChange == <<119, 105, 110, 100, 111, 119, 45, 99, 104, 97, 110, 103, 101>>
TagSignal == <<115, 105, 103, 110, 97, 108>>                            \* "signal"
TagExitStatus == <<101, 120, 105, 116, 45, 115, 116, 97, 116, 117, 115>>  \* "exit-status"
TagExitSignal == <<101, 120, 105, 116, 45, 115, 105, 103, 110, 97, 108>>  \* "exit-signal"
TagFrobnicate == <<102, 114, 111, 98, 110, 105, 99, 97, 116, 101>>      \* "frobnicate"

SSH_MSG_CHANNEL_REQUEST == 98

-----------------------------------------------------------------------------
(* The nine payload variants: Length, RequestTypeStr, Write.               *)

RECURSIVE AttrLoop(_, _)
\* for _, attr := range vals { util.AppendVarInt(attrs, attr) }: the slice
\* AppendVarInt returns is dropped, so attrs is what it was
AttrLoop(attrs, vals) ==
    IF vals = <<>> THEN attrs
    ELSE LET dropped == AppendVarInt(attrs, Head(vals))
         IN  AttrLoop(attrs, Tail(vals))

PtyRequest_Length(r) ==
    SSHStringLen(r.Term) + VarIntLen(r.CharWidth) + VarIntLen(r.CharHeight)
    + VarIntLen(r.PixelWidth) + VarIntLen(r.PixelHeight)
    + SSHStringLen(r.EncodedTerminalModes)

PtyRequest_RequestTypeStr == TagPtyReq

PtyRequest_Write(r, b) ==
    IF Len(b) < PtyRequest_Length(r) THEN WriteFailed(ErrShortBuffer, b) ELSE
    LET w1 == WriteSSHString(b, r.Term) IN
    IF w1.err # NoErr THEN WriteFailed(w1.err, w1.buf) ELSE
    LET c1 == w1.n
        attrs == AttrLoop(<<>>, <<r.CharWidth, r.CharHeight, r.PixelWidth, r.PixelHeight>>)
        cp == Copy(Slice(w1.buf, c1), attrs)
        b2 == Splice(w1.buf, c1, cp.buf)
        c2 == c1 + cp.n
        w3 == WriteSSHString(Slice(b2, c2), r.EncodedTerminalModes)
        b3 == Splice(b2, c2, w3.buf)
    IN  IF w3.err # NoErr THEN WriteFailed(w3.err, b3)
        ELSE [n |-> c2 + w3.n, err |-> NoErr, buf |-> b3]

X11Request_Length(r) ==
    1 + SSHStringLen(r.X11AuthenticationProtocol)
    + SSHStringLen(r.X11AuthenticationCookie) + VarIntLen(r.X11ScreenNumber)

X11Request_RequestTypeStr == TagX11Req

X11Request_Write(r, b) ==
    IF Len(b) < X11Request_Length(r) THEN WriteFailed(ErrShortBuffer, b) ELSE
    LET b1 == <<BoolByte(r.SingleConnection)>> \o Slice(b, 1)
        c1 == 1
        w2 == WriteSSHString(Slice(b1, c1), r.X11AuthenticationProtocol)
        b2 == Splice(b1, c1, w2.buf)
    IN
    IF w2.err # NoErr THEN WriteFailed(w2.err, b2) ELSE
    LET c2 == c1 + w2.n
        w3 == WriteSSHString(Slice(b2, c2), r.X11AuthenticationCookie)
        b3 == Splice(b2, c2, w3.buf)
    IN
    IF w3.err # NoErr THEN WriteFailed(w3.err, b3) ELSE
    LET c3 == c2 + w3.n
        screenNumberBuf == AppendVarInt(<<>>, r.X11ScreenNumber)
        cp == Copy(Slice(b3, c3), screenNumberBuf)
    IN  [n |-> c3 + cp.n, err |-> NoErr, buf |-> Splice(b3, c3, cp.buf)]

ShellRequest_Length(r) == 0

ShellRequest_RequestTypeStr == TagShell

ShellRequest_Write(r, b) == [n |-> 0, err |-> NoErr, buf |-> b]

ExecRequest_Length(r) == SSHStringLen(r.Command)

ExecRequest_RequestTypeStr == TagExec

ExecRequest_Write(r, b) == WriteSSHString(b, r.Command)

SubsystemRequest_Length(r) == SSHStringLen(r.SubsystemName)

SubsystemRequest_RequestTypeStr == TagSubsystem

SubsystemRequest_Write(r, b) == WriteSSHString(b, r.SubsystemName)

WindowChangeRequest_Length(r) ==
    VarIntLen(r.CharWidth) + VarIntLen(r.CharHeight)
    + VarIntLen(r.PixelWidth) + VarIntLen(r.PixelHeight)

WindowChangeRequest_RequestTypeStr == TagWindowChange

WindowChangeRequest_Write(r, b) ==
    IF Len(b) < WindowChangeRequest_Length(r) THEN WriteFailed(ErrShortBuffer, b) ELSE
    LET attrs == AttrLoop(<<>>, <<r.CharWidth, r.CharHeight, r.PixelWidth, r.PixelHeight>>)
        cp == Copy(b, attrs)
    IN  [n |-> cp.n, err |-> NoErr, buf |-> cp.buf]

SignalRequest_Length(r) == SSHStringLen(r.SignalNameWithoutSig)

SignalRequest_RequestTypeStr == TagSignal

SignalRequest_Write(r, b) == WriteSSHString(b, r.SignalNameWithoutSig)

ExitStatusRequest_Length(r) == VarIntLen(r.exitStatus)

ExitStatusRequest_RequestTypeStr == TagSignal

ExitStatusRequest_Write(r, b) ==
    IF Len(b) < ExitStatusRequest_Length(r) THEN WriteFailed(ErrShortBuffer, b) ELSE
    LET attrBuf == AppendVarInt(<<>>, r.exitStatus)
        cp == Copy(b, attrBuf)
    IN  [n |-> cp.n, err |-> NoErr, buf |-> cp.buf]

ExitSignalRequest_Length(r) ==
    SSHStringLen(r.SignalNameWithoutSig) + 1
    + SSHStringLen(r.ErrorMessageUTF8) + SSHStringLen(r.LanguageTag)

ExitSignalRequest_RequestTypeStr == TagExitSignal

\* the second and third string are written at buf, not at buf[consumed:]
ExitSignalRequest_Write(r, b) ==
    IF Len(b) < ExitSignalRequest_Length(r) THEN WriteFailed(ErrShortBuffer, b) ELSE
    LET w1 == WriteSSHString(b, r.SignalNameWithoutSig) IN
    IF w1.err # NoErr THEN WriteFailed(w1.err, w1.buf) ELSE
    LET c1 == w1.n
        b2 == SubSeq(w1.buf, 1, c1) \o <<BoolByte(r.CoreDumped)>> \o Slice(w1.buf, c1 + 1)
        c2 == c1 + 1
        w3 == WriteSSHString(b2, r.ErrorMessageUTF8)
    IN
    IF w3.err # NoErr THEN WriteFailed(w3.err, w3.buf) ELSE
    LET c3 == c2 + w3.n
        w4 == WriteSSHString(w3.buf, r.LanguageTag)
    IN  IF w4.err # NoErr THEN WriteFailed(w4.err, w4.buf)
        ELSE [n |-> c3 + w4.n, err |-> NoErr, buf |-> w4.buf]

-----------------------------------------------------------------------------
(* The ChannelRequest interface: a call goes to the method of the value's  *)
(* concrete type.                                                          *)

Types == {"PtyRequest", "X11Request", "ShellRequest", "ExecRequest", "SubsystemRequest",
          "WindowChangeRequest", "SignalRequest", "ExitStatusRequest", "ExitSignalRequest"}

Length(r) ==
    CASE r.type = "PtyRequest" -> PtyRequest_Length(r)
      [] r.type = "X11Request" -> X11Request_Length(r)
      [] r.type = "ShellRequest" -> ShellRequest_Length(r)
      [] r.type = "ExecRequest" -> ExecRequest_Length(r)
      [] r.type = "SubsystemRequest" -> SubsystemRequest_Length(r)
      [] r.type = "WindowChangeRequest" -> WindowChangeRequest_Length(r)
      [] r.type = "SignalRequest" -> SignalRequest_Length(r)
      [] r.type = "ExitStatusRequest" -> ExitStatusRequest_Length(r)
      [] r.type = "ExitSignalRequest" -> ExitSignalRequest_Length(r)

RequestTypeStr(r) ==
    CASE r.type = "PtyRequest" -> PtyRequest_RequestTypeStr
      [] r.type = "X11Request" -> X11Request_RequestTypeStr
      [] r.type = "ShellRequest" -> ShellRequest_RequestTypeStr
      [] r.type = "ExecRequest" -> ExecRequest_RequestTypeStr
      [] r.type = "SubsystemRequest" -> SubsystemRequest_RequestTypeStr
      [] r.type = "WindowChangeRequest" -> WindowChangeRequest_RequestTypeStr
      [] r.type = "SignalRequest" -> SignalRequest_RequestTypeStr
      [] r.type = "ExitStatusRequest" -> ExitStatusRequest_RequestTypeStr
      [] r.type = "ExitSignalRequest" -> ExitSignalRequest_RequestTypeStr

Write(r, b) ==
    CASE r.type = "PtyRequest" -> PtyRequest_Write(r, b)
      [] r.type = "X11Request" -> X11Request_Write(r, b)
      [] r.type = "ShellRequest" -> ShellRequest_Write(r, b)
      [] r.type = "ExecRequest" -> ExecRequest_Write(r, b)
      [] r.type = "SubsystemRequest" -> SubsystemRequest_Write(r, b)
      [] r.type = "WindowChangeRequest" -> WindowChangeRequest_Write(r, b)
      [] r.type = "SignalRequest" -> SignalRequest_Write(r, b)
      [] r.type = "ExitStatusRequest" -> ExitStatusRequest_Write(r, b)
      [] r.type = "ExitSignalRequest" -> ExitSignalRequest_Write(r, b)

-----------------------------------------------------------------------------
(* ChannelRequestMessage: the envelope m = [wantReply, ChannelRequest].    *)

ChannelRequestMessage_Length(m) ==
    1 + SSHStringLen(RequestTypeStr(m.ChannelRequest)) + 1 + Length(m.ChannelRequest)

\* ChannelRequestMessage.Write without the consumed += 1 after the reply flag:
\* the payload is written over the flag byte
ChannelRequestMessage_WriteOverFlag(m, b) ==
    IF Len(b) < ChannelRequestMessage_Length(m) THEN WriteFailed(ErrShortBuffer, b) ELSE
    LET b1 == <<SSH_MSG_CHANNEL_REQUEST>> \o Slice(b, 1)
        w2 == WriteSSHString(Slice(b1, 1), RequestTypeStr(m.ChannelRequest))
        b2 == Splice(b1, 1, w2.buf)
    IN
    IF w2.err # NoErr THEN WriteFailed(w2.err, b2) ELSE
    LET c2 == 1 + w2.n
        b3 == SubSeq(b2, 1, c2) \o <<BoolByte(m.wantReply)>> \o Slice(b2, c2 + 1)
        w4 == Write(m.ChannelRequest, Slice(b3, c2))
        b4 == Splice(b3, c2, w4.buf)
    IN  IF w4.err # NoErr THEN WriteFailed(w4.err, b4)
        ELSE [n |-> c2 + 1 + w4.n, err |-> NoErr, buf |-> b4]

ChannelRequestMessage_Write(m, b) ==
    IF Len(b) < ChannelRequestMessage_Length(m) THEN WriteFailed(ErrShortBuffer, b) ELSE
    LET b1 == <<SSH_MSG_CHANNEL_REQUEST>> \o Slice(b, 1)
        c1 == 1
        w2 == WriteSSHString(Slice(b1, c1), RequestTypeStr(m.ChannelRequest))
        b2 == Splice(b1, c1, w2.buf)
    IN
    IF w2.err # NoErr THEN WriteFailed(w2.err, b2) ELSE
    LET c2 == c1 + w2.n
        b3 == SubSeq(b2, 1, c2) \o <<BoolByte(m.wantReply)>> \o Slice(b2, c2 + 1)
        c3 == c2 + 1
        w4 == Write(m.ChannelRequest, Slice(b3, c3))
        b4 == Splice(b3, c3, w4.buf)
    IN  IF w4.err # NoErr THEN WriteFailed(w4.err, b4)
        ELSE [n |-> c3 + w4.n, err |-> NoErr, buf |-> b4]

-----------------------------------------------------------------------------
(* Streams.  The caller's io.Reader is [data, pos, chunk]: the bytes, how  *)
(* many of them were taken, and the most bytes one Read call hands out (an *)
(* io.Reader may return fewer bytes than asked for).                       *)

DefaultBufSize == 4096          \* bufio.NewReader's buffer

Remaining(r) == Len(r.data) - r.pos

Drained(r) == [r EXCEPT !.pos = Len(r.data)]

ReadFailed(e, r) == [err |-> e, val |-> Nil, r |-> r]

\* binary.Read(buf, binary.BigEndian, &b) for a bool: one byte, b = (byte != 0)
BinaryReadBool(r) ==
    IF Remaining(r) = 0 THEN ReadFailed(ErrEOF, r)
    ELSE [err |-> NoErr, val |-> (r.data[r.pos + 1] # 0), r |-> [r EXCEPT !.pos = @ + 1]]

\* whether the 4-byte big-endian length l is more than rem (rem < 65536)
DeclaredExceeds(l, rem) == l[1] # 0 \/ l[2] # 0 \/ l[3] * 256 + l[4] > rem

\* util.ParseSSHString: the 4-byte length, then that many bytes
ParseSSHString(r) ==
    IF Remaining(r) < 4 THEN ReadFailed(ErrTruncated, Drained(r)) ELSE
    LET l == SubSeq(r.data, r.pos + 1, r.pos + 4)
        n == l[3] * 256 + l[4]
    IN  IF DeclaredExceeds(l, Remaining(r) - 4) THEN ReadFailed(ErrTruncated, Drained(r))
        ELSE [err |-> NoErr, val |-> SubSeq(r.data, r.pos + 5, r.pos + 4 + n),
              r |-> [r EXCEPT !.pos = @ + 4 + n]]

\* bufio.NewReader(buf): nothing buffered yet.  avail counts the bytes taken
\* from buf that the bufio.Reader still holds.
NewReader(r) == [r |-> r, avail |-> 0]

\* bufio.Reader.ReadByte: an empty buffer is filled by ONE Read of the
\* underlying reader, which takes whatever that Read hands out
ReadByte(br) ==
    IF br.avail > 0
    THEN [err |-> NoErr, val |-> br.r.data[br.r.pos - br.avail + 1],
          br |-> [br EXCEPT !.avail = @ - 1]]
    ELSE IF Remaining(br.r) = 0 THEN [err |-> ErrEOF, val |-> 0, br |-> br]
    ELSE LET k == Min(Min(br.r.chunk, DefaultBufSize), Remaining(br.r))
         IN  [err |-> NoErr, val |-> br.r.data[br.r.pos + 1],
              br |-> [r |-> [br.r EXCEPT !.pos = @ + k], avail |-> k - 1]]

RECURSIVE ReadVarIntRest(_, _, _)
\* the k bytes that follow a varint's first byte, accumulated big-endian
ReadVarIntRest(br, acc, k) ==
    IF k = 0 THEN [err |-> NoErr, val |-> acc, br |-> br]
    ELSE LET b == ReadByte(br)
         IN  IF b.err # NoErr THEN [err |-> ErrTruncated, val |-> 0, br |-> b.br]
             ELSE ReadVarIntRest(b.br, acc * 256 + b.val, k - 1)

\* util.ReadVarInt: the two high bits of the first byte give the width
ReadVarInt(br) ==
    LET b == ReadByte(br)
    IN  IF b.err # NoErr THEN [err |-> ErrTruncated, val |-> 0, br |-> b.br]
        ELSE ReadVarIntRest(b.br, b.val % 64,
                            CASE b.val \div 64 = 0 -> 0
                              [] b.val \div 64 = 1 -> 1
                              [] b.val \div 64 = 2 -> 3
                              [] b.val \div 64 = 3 -> 7)

-----------------------------------------------------------------------------
(* The decoders of the payload variants.                                   *)

ParsePtyRequest(r) ==
    LET term == ParseSSHString(r) IN
    IF term.err # NoErr THEN ReadFailed(term.err, term.r) ELSE
    LET charWidth == ReadVarInt(NewReader(term.r)) IN
    IF charWidth.err # NoErr THEN ReadFailed(charWidth.err, charWidth.br.r) ELSE
    LET charHeight == ReadVarInt(charWidth.br) IN
    IF charHeight.err # NoErr THEN ReadFailed(charHeight.err, charHeight.br.r) ELSE
    LET pixelWidth == ReadVarInt(charHeight.br) IN
    IF pixelWidth.err # NoErr THEN ReadFailed(pixelWidth.err, pixelWidth.br.r) ELSE
    LET pixelHeight == ReadVarInt(pixelWidth.br) IN
    IF pixelHeight.err # NoErr THEN ReadFailed(pixelHeight.err, pixelHeight.br.r) ELSE
    LET encodedTerminalModes == ParseSSHString(pixelHeight.br.r) IN
    IF encodedTerminalModes.err # NoErr
    THEN ReadFailed(encodedTerminalModes.err, encodedTerminalModes.r)
    ELSE [err |-> NoErr,
          val |-> [type |-> "PtyRequest", Term |-> term.val,
                   CharWidth |-> charWidth.val, CharHeight |-> charHeight.val,
                   PixelWidth |-> pixelWidth.val, PixelHeight |-> pixelHeight.val,
                   EncodedTerminalModes |-> encodedTerminalModes.val],
          r |-> encodedTerminalModes.r]

ParseX11Request(r) ==
    LET singleConnection == BinaryReadBool(r) IN
    IF singleConnection.err # NoErr THEN ReadFailed(singleConnection.err, singleConnection.r) ELSE
    LET x11AuthenticationProtocol == ParseSSHString(singleConnection.r) IN
    IF x11AuthenticationProtocol.err # NoErr
    THEN ReadFailed(x11AuthenticationProtocol.err, x11AuthenticationProtocol.r) ELSE
    LET x11AuthenticationCookie == ParseSSHString(x11AuthenticationProtocol.r) IN
    IF x11AuthenticationCookie.err # NoErr
    THEN ReadFailed(x11AuthenticationCookie.err, x11AuthenticationCookie.r) ELSE
    LET x11ScreenNumber == ReadVarInt(NewReader(x11AuthenticationCookie.r)) IN
    IF x11ScreenNumber.err # NoErr THEN ReadFailed(x11ScreenNumber.err, x11ScreenNumber.br.r)
    ELSE [err |-> NoErr,
          val |-> [type |-> "X11Request", SingleConnection |-> singleConnection.val,
                   X11AuthenticationProtocol |-> x11AuthenticationProtocol.val,
                   X11AuthenticationCookie |-> x11AuthenticationCookie.val,
                   X11ScreenNumber |-> x11ScreenNumber.val],
          r |-> x11ScreenNumber.br.r]

ParseShellRequest(r) == [err |-> NoErr, val |-> [type |-> "ShellRequest"], r |-> r]

ParseExecRequest(r) ==
    LET command == ParseSSHString(r)
    IN  IF command.err # NoErr THEN ReadFailed(ErrAdvanceTooFar, command.r)
        ELSE [err |-> NoErr, val |-> [type |-> "ExecRequest", Command |-> command.val],
              r |-> command.r]

ParseSubsystemRequest(r) ==
    LET subsystemName == ParseSSHString(r)
    IN  IF subsystemName.err # NoErr THEN ReadFailed(ErrAdvanceTooFar, subsystemName.r)
        ELSE [err |-> NoErr,
              val |-> [type |-> "SubsystemRequest", SubsystemName |-> subsystemName.val],
              r |-> subsystemName.r]

ParseWindowChangeRequest(r) ==
    LET charWidth == ReadVarInt(NewReader(r)) IN
    IF charWidth.err # NoErr THEN ReadFailed(charWidth.err, charWidth.br.r) ELSE
    LET charHeight == ReadVarInt(charWidth.br) IN
    IF charHeight.err # NoErr THEN ReadFailed(charHeight.err, charHeight.br.r) ELSE
    LET pixelWidth == ReadVarInt(charHeight.br) IN
    IF pixelWidth.err # NoErr THEN ReadFailed(pixelWidth.err, pixelWidth.br.r) ELSE
    LET pixelHeight == ReadVarInt(pixelWidth.br) IN
    IF pixelHeight.err # NoErr THEN ReadFailed(pixelHeight.err, pixelHeight.br.r)
    ELSE [err |-> NoErr,
          val |-> [type |-> "WindowChangeRequest",
                   CharWidth |-> charWidth.val, CharHeight |-> charHeight.val,
                   PixelWidth |-> pixelWidth.val, PixelHeight |-> pixelHeight.val],
          r |-> pixelHeight.br.r]

ParseSignalRequest(r) ==
    LET signalNameWithoutSig == ParseSSHString(r)
    IN  IF signalNameWithoutSig.err # NoErr
        THEN ReadFailed(ErrAdvanceTooFar, signalNameWithoutSig.r)
        ELSE [err |-> NoErr,
              val |-> [type |-> "SignalRequest",
                       SignalNameWithoutSig |-> signalNameWithoutSig.val],
              r |-> signalNameWithoutSig.r]

ParseExitStatusRequest(r) ==
    LET exitStatus == ReadVarInt(NewReader(r))
    IN  IF exitStatus.err # NoErr THEN ReadFailed(exitStatus.err, exitStatus.br.r)
        ELSE [err |-> NoErr,
              val |-> [type |-> "ExitStatusRequest", exitStatus |-> exitStatus.val],
              r |-> exitStatus.br.r]

ParseExitSignalRequest(r) ==
    LET signalNameWithoutSig == ParseSSHString(r) IN
    IF signalNameWithoutSig.err # NoErr
    THEN ReadFailed(ErrAdvanceTooFar, signalNameWithoutSig.r) ELSE
    LET coreDumped == BinaryReadBool(signalNameWithoutSig.r) IN
    IF coreDumped.err # NoErr THEN ReadFailed(coreDumped.err, coreDumped.r) ELSE
    LET errorMessageUTF8 == ParseSSHString(coreDumped.r) IN
    IF errorMessageUTF8.err # NoErr THEN ReadFailed(ErrAdvanceTooFar, errorMessageUTF8.r) ELSE
    LET languageTag == ParseSSHString(errorMessageUTF8.r) IN
    IF languageTag.err # NoErr THEN ReadFailed(ErrAdvanceTooFar, languageTag.r)
    ELSE [err |-> NoErr,
          val |-> [type |-> "ExitSignalRequest",
                   SignalNameWithoutSig |-> signalNameWithoutSig.val,
                   CoreDumped |-> coreDumped.val,
                   ErrorMessageUTF8 |-> errorMessageUTF8.val,
                   LanguageTag |-> languageTag.val],
          r |-> languageTag.r]

\* a call of the decoder named f
CallParseFunc(f, r) ==
    CASE f = "ParsePtyRequest" -> ParsePtyRequest(r)
      [] f = "ParseX11Request" -> ParseX11Request(r)
      [] f = "ParseShellRequest" -> ParseShellRequest(r)
      [] f = "ParseExecRequest" -> ParseExecRequest(r)
      [] f = "ParseSubsystemRequest" -> ParseSubsystemRequest(r)
      [] f = "ParseWindowChangeRequest" -> ParseWindowChangeRequest(r)
      [] f = "ParseSignalRequest" -> ParseSignalRequest(r)
      [] f = "ParseExitStatusRequest" -> ParseExitStatusRequest(r)
      [] f = "ParseExitSignalRequest" -> ParseExitSignalRequest(r)

\* the decoder that returns values of concrete type t
DecoderOf(t) ==
    CASE t = "PtyRequest" -> "ParsePtyRequest"
      [] t = "X11Request" -> "ParseX11Request"
      [] t = "ShellRequest" -> "ParseShellRequest"
      [] t = "ExecRequest" -> "ParseExecRequest"
      [] t = "SubsystemRequest" -> "ParseSubsystemRequest"
      [] t = "WindowChangeRequest" -> "ParseWindowChangeRequest"
      [] t = "SignalRequest" -> "ParseSignalRequest"
      [] t = "ExitStatusRequest" -> "ParseExitStatusRequest"
      [] t = "ExitSignalRequest" -> "ParseExitSignalRequest"

-----------------------------------------------------------------------------
(* The registry and the envelope's decoder.                                *)

ChannelRequestParseFuncs ==
    (TagPtyReq :> "ParsePtyRequest") @@ (TagX11Req :> "ParseX11Request")
    @@ (TagShell :> "ParseShellRequest") @@ (TagExec :> "ParseExecRequest")
    @@ (TagSubsystem :> "ParseSubsystemRequest")
    @@ (TagWindowChange :> "ParseWindowChangeRequest")
    @@ (TagSignal :> "ParseSignalRequest")

\* Lookup with a miss falling back to the decoder of the field-less variant
LookupOrShell(requestType) ==
    IF requestType \in DOMAIN ChannelRequestParseFuncs
    THEN [ok |-> TRUE, parseFunc |-> ChannelRequestParseFuncs[requestType]]
    ELSE [ok |-> TRUE, parseFunc |-> "ParseShellRequest"]

\* parseFunc, ok := ChannelRequestParseFuncs[requestType]
Lookup(requestType) ==
    IF requestType \in DOMAIN ChannelRequestParseFuncs
    THEN [ok |-> TRUE, parseFunc |-> ChannelRequestParseFuncs[requestType]]
    ELSE [ok |-> FALSE, parseFunc |-> "none"]

\* ParseRequestMessage from the call of parseFunc on: the envelope, or the
\* payload decoder's error
ParsedRequestMessage(wantReply, parseFunc, channelRequest) ==
    IF channelRequest.err # NoErr
    THEN [err |-> channelRequest.err, val |-> Nil, r |-> channelRequest.r,
          invoked |-> parseFunc]
    ELSE [err |-> NoErr,
          val |-> [wantReply |-> wantReply, ChannelRequest |-> channelRequest.val],
          r |-> channelRequest.r, invoked |-> parseFunc]

\* The result also names the payload decoder that was invoked ("none" when
\* none was).
ParseRequestMessage(r) ==
    LET requestType == ParseSSHString(r) IN
    IF requestType.err # NoErr
    THEN [err |-> requestType.err, val |-> Nil, r |-> requestType.r, invoked |-> "none"] ELSE
    LET wantReply == BinaryReadBool(requestType.r) IN
    IF wantReply.err # NoErr
    THEN [err |-> wantReply.err, val |-> Nil, r |-> wantReply.r, invoked |-> "none"] ELSE
    LET found == Lookup(requestType.val) IN
    IF ~found.ok
    THEN [err |-> ErrInvalidType, val |-> Nil, r |-> wantReply.r, invoked |-> "none"]
    ELSE ParsedRequestMessage(wantReply.val, found.parseFunc,
                              CallParseFunc(found.parseFunc, wantReply.r))

-----------------------------------------------------------------------------
(* The wire format of the field tables: what a peer puts on the stream.    *)

WireString(s) == BytesBE(Len(s), 4) \o s

WireVarInt(v) == AppendVarInt(<<>>, v)

\* the fields of v in table order, a boolean field as the byte bb
WireFields(v, bb) ==
    CASE v.type = "PtyRequest" ->
            WireString(v.Term) \o WireVarInt(v.CharWidth) \o WireVarInt(v.CharHeight)
            \o WireVarInt(v.PixelWidth) \o WireVarInt(v.PixelHeight)
            \o WireString(v.EncodedTerminalModes)
      [] v.type = "X11Request" ->
            <<bb>> \o WireString(v.X11AuthenticationProtocol)
            \o WireString(v.X11AuthenticationCookie) \o WireVarInt(v.X11ScreenNumber)
      [] v.type = "ShellRequest" -> <<>>
      [] v.type = "ExecRequest" -> WireString(v.Command)
      [] v.type = "SubsystemRequest" -> WireString(v.SubsystemName)
      [] v.type = "WindowChangeRequest" ->
            WireVarInt(v.CharWidth) \o WireVarInt(v.CharHeight)
            \o WireVarInt(v.PixelWidth) \o WireVarInt(v.PixelHeight)
      [] v.type = "SignalRequest" -> WireString(v.SignalNameWithoutSig)
      [] v.type = "ExitStatusRequest" -> WireVarInt(v.exitStatus)
      [] v.type = "ExitSignalRequest" ->
            WireString(v.SignalNameWithoutSig) \o <<bb>>
            \o WireString(v.ErrorMessageUTF8) \o WireString(v.LanguageTag)

\* the tag of each variant in the wire format's table
WireTag(t) ==
    CASE t = "PtyRequest" -> TagPtyReq
      [] t = "X11Request" -> TagX11Req
      [] t = "ShellRequest" -> TagShell
      [] t = "ExecRequest" -> TagExec
      [] t = "SubsystemRequest" -> TagSubsystem
      [] t = "WindowChangeRequest" -> TagWindowChange
      [] t = "SignalRequest" -> TagSignal
      [] t = "ExitStatusRequest" -> TagExitStatus
      [] t = "ExitSignalRequest" -> TagExitSignal

HasBool(v) == v.type \in {"X11Request", "ExitSignalRequest"}

BoolOf(v) == IF v.type = "X11Request" THEN v.SingleConnection ELSE v.CoreDumped

\* a message as ParseRequestMessage expects it: from the request type on
WireMessage(m) ==
    WireString(m.tag) \o <<m.flag>> \o WireFields(m.payload, m.boolByte)

RECURSIVE WireAll(_)
WireAll(ms) == IF ms = <<>> THEN <<>> ELSE WireMessage(Head(ms)) \o WireAll(Tail(ms))

-----------------------------------------------------------------------------
(* The inputs.                                                             *)

Payloads ==
    {[type |-> "PtyRequest", Term |-> t, CharWidth |-> d[1], CharHeight |-> d[2],
      PixelWidth |-> d[3], PixelHeight |-> d[4], EncodedTerminalModes |-> e] :
        t \in Strs, d \in Dims, e \in Strs}
    \cup {[type |-> "X11Request", SingleConnection |-> c, X11AuthenticationProtocol |-> p,
           X11AuthenticationCookie |-> k, X11ScreenNumber |-> n] :
             c \in BOOLEAN, p \in Strs, k \in Strs, n \in VarIntVals}
    \cup {[type |-> "ShellRequest"]}
    \cup {[type |-> "ExecRequest", Command |-> c] : c \in Strs}
    \cup {[type |-> "SubsystemRequest", SubsystemName |-> c] : c \in Strs}
    \cup {[type |-> "WindowChangeRequest", CharWidth |-> d[1], CharHeight |-> d[2],
           PixelWidth |-> d[3], PixelHeight |-> d[4]] : d \in Dims}
    \cup {[type |-> "SignalRequest", SignalNameWithoutSig |-> c] : c \in Strs}
    \cup {[type |-> "ExitStatusRequest", exitStatus |-> n] : n \in VarIntVals}
    \cup {[type |-> "ExitSignalRequest", SignalNameWithoutSig |-> g, CoreDumped |-> c,
           ErrorMessageUTF8 |-> e, LanguageTag |-> l] :
             g \in Strs, c \in BOOLEAN, e \in Strs, l \in Strs}

\* one payload of every variant, to follow another message on a stream
Followers ==
    {[type |-> "PtyRequest", Term |-> <<97>>, CharWidth |-> 80, CharHeight |-> 24,
      PixelWidth |-> 640, PixelHeight |-> 480, EncodedTerminalModes |-> <<97>>],
     [type |-> "X11Request", SingleConnection |-> TRUE, X11AuthenticationProtocol |-> <<97>>,
      X11AuthenticationCookie |-> <<>>, X11ScreenNumber |-> 64],
     [type |-> "ShellRequest"],
     [type |-> "ExecRequest", Command |-> <<97>>],
     [type |-> "SubsystemRequest", SubsystemName |-> <<97>>],
     [type |-> "WindowChangeRequest", CharWidth |-> 80, CharHeight |-> 24,
      PixelWidth |-> 640, PixelHeight |-> 480],
     [type |-> "SignalRequest", SignalNameWithoutSig |-> <<97>>],
     [type |-> "ExitStatusRequest", exitStatus |-> 64],
     [type |-> "ExitSignalRequest", SignalNameWithoutSig |-> <<97>>, CoreDumped |-> FALSE,
      ErrorMessageUTF8 |-> <<97>>, LanguageTag |-> <<>>]}

BoolBytes == {0, 1, 2}

UnknownTags == {TagFrobnicate, <<>>}

Chunks == (1..MaxChunk) \cup {DefaultBufSize}

BufLens(need) == {l \in (need - 1)..(need + MaxSlack) : l >= 0}

\* the byte that may stand for v's boolean field on the stream
BoolBytesFor(v) ==
    IF ~HasBool(v) THEN {0}
    ELSE IF BoolOf(v) THEN BoolBytes \ {0} ELSE {0}

Message(v, f) ==
    [tag |-> WireTag(v.type), flag |-> f, payload |-> v,
     boolByte |-> IF HasBool(v) THEN BoolByte(BoolOf(v)) ELSE 0]

Messages ==
    {Message(v, f) : v \in Payloads, f \in BoolBytes}
    \cup {[Message(v, f) EXCEPT !.tag = t] : v \in Followers, f \in BoolBytes, t \in UnknownTags}

-----------------------------------------------------------------------------
(* The state machine: the calls a user of the package makes.               *)

Init ==
    /\ op = "idle"
    /\ req = Nil
    /\ buf0 = <<>>
    /\ buf = <<>>
    /\ wres = [n |-> 0, err |-> NoErr]
    /\ sent = <<>>
    /\ cut = 0
    /\ rd = [data |-> <<>>, pos |-> 0, chunk |-> 1]
    /\ results = <<>>

\* r.Write(buf) on a payload r
PayloadWrite ==
    /\ op = "idle"
    /\ \E v \in Payloads, fill \in FillBytes :
         \E len \in BufLens(Length(v)) :
            LET b == [i \in 1..len |-> fill]
                w == Write(v, b)
            IN  /\ req' = v
                /\ buf0' = b
                /\ buf' = w.buf
                /\ wres' = [n |-> w.n, err |-> w.err]
    /\ op' = "PayloadWrite"
    /\ UNCHANGED <<sent, cut, rd, results>>

\* m.Write(buf) on an envelope m
MessageWrite ==
    /\ op = "idle"
    /\ \E v \in Payloads, wr \in BOOLEAN, fill \in FillBytes :
         LET m == [wantReply |-> wr, ChannelRequest |-> v]
         IN  \E len \in BufLens(ChannelRequestMessage_Length(m)) :
                LET b == [i \in 1..len |-> fill]
                    w == ChannelRequestMessage_Write(m, b)
                IN  /\ req' = m
                    /\ buf0' = b
                    /\ buf' = w.buf
                    /\ wres' = [n |-> w.n, err |-> w.err]
    /\ op' = "MessageWrite"
    /\ UNCHANGED <<sent, cut, rd, results>>

\* the variant's decoder on the bytes the payload's Write produced
DecodeWritten ==
    /\ op = "PayloadWrite"
    /\ wres.err = NoErr
    /\ \E chunk \in Chunks :
         LET r == [data |-> SubSeq(buf, 1, wres.n), pos |-> 0, chunk |-> chunk]
             res == CallParseFunc(DecoderOf(req.type), r)
         IN  /\ rd' = res.r
             /\ results' = <<res>>
    /\ op' = "DecodeWritten"
    /\ UNCHANGED <<req, buf0, buf, wres, sent, cut>>

\* the variant's decoder on a stream that holds the fields of v, whole or
\* with its last c bytes missing
DecodePayload ==
    /\ op = "idle"
    /\ \E v \in Payloads, chunk \in Chunks :
         \E bb \in BoolBytesFor(v) :
            \E c \in 0..(IF bb \in {0, 1} THEN Len(WireFields(v, bb)) ELSE 0) :
               LET full == WireFields(v, bb)
                   r == [data |-> SubSeq(full, 1, Len(full) - c), pos |-> 0, chunk |-> chunk]
                   res == CallParseFunc(DecoderOf(v.type), r)
               IN  /\ sent' = <<[tag |-> <<>>, flag |-> 0, payload |-> v, boolByte |-> bb]>>
                   /\ cut' = c
                   /\ rd' = res.r
                   /\ results' = <<res>>
    /\ op' = "DecodePayload"
    /\ UNCHANGED <<req, buf0, buf, wres>>

\* the peer sends one message, whole or truncated, or two messages
SendMessages ==
    /\ op = "idle"
    /\ \E m \in Messages, chunk \in Chunks :
         \/ \E c \in 0..(IF m.flag = 1 THEN Len(WireMessage(m)) ELSE 0) :
               /\ sent' = <<m>>
               /\ cut' = c
               /\ rd' = [data |-> SubSeq(WireMessage(m), 1, Len(WireMessage(m)) - c),
                         pos |-> 0, chunk |-> chunk]
         \/ \E v \in Followers :
               /\ m.flag \in {0, 1}
               /\ sent' = <<m, Message(v, 1)>>
               /\ cut' = 0
               /\ rd' = [data |-> WireMessage(m) \o WireMessage(Message(v, 1)),
                         pos |-> 0, chunk |-> chunk]
    /\ op' = "Sent"
    /\ results' = <<>>
    /\ UNCHANGED <<req, buf0, buf, wres>>

\* ParseRequestMessage(buf) on the stream, once per message the peer sent,
\* the next one after the one before succeeded
ParseMessage ==
    /\ op \in {"Sent", "ParseMessage"}
    /\ Len(results) < Len(sent)
    /\ results # <<>> => results[Len(results)].err = NoErr
    /\ LET res == ParseRequestMessage(rd)
       IN  /\ rd' = res.r
           /\ results' = Append(results, res)
    /\ op' = "ParseMessage"
    /\ UNCHANGED <<req, buf0, buf, wres, sent, cut>>

Next ==
    \/ PayloadWrite
    \/ MessageWrite
    \/ DecodeWritten
    \/ DecodePayload
    \/ SendMessages
    \/ ParseMessage

Spec == Init /\ [][Next]_vars

-----------------------------------------------------------------------------
(* The properties.                                                         *)

Last(sq) == sq[Len(sq)]

TruncationErrors == {ErrTruncated, ErrEOF}

\* the request type the envelope's Write left in the buffer, after the
\* message-type byte
WrittenTag == SubSeq(buf, 6, 5 + buf[4] * 256 + buf[5])

\* the stream holds the field tables' encoding of what was sent, complete
WellFormedStream ==
    /\ cut = 0
    /\ \A i \in 1..Len(sent) :
          /\ sent[i].flag \in {0, 1}
          /\ sent[i].tag = WireTag(sent[i].payload.type)

\* C1: the count a successful Write returns, of the envelope and of every
\* payload variant, equals Length() of the same object.
C1_LengthExactness ==
    /\ (op = "PayloadWrite" /\ wres.err = NoErr) => wres.n = Length(req)
    /\ (op = "MessageWrite" /\ wres.err = NoErr) => wres.n = ChannelRequestMessage_Length(req)

\* C2: the variant's decoder, run on the bytes the payload's Write produced,
\* returns a payload equal to the written one field by field.
C2_RoundTrip ==
    op = "DecodeWritten" => (results[1].err = NoErr /\ results[1].val = req)

\* C3: the tag of a freshly decoded payload is a key of the registry, and
\* the registry's entry for it is the decoder of the payload's concrete type.
C3_TagFidelity ==
    (op \in {"DecodePayload", "DecodeWritten"} /\ results[1].err = NoErr) =>
        LET v == results[1].val
            found == Lookup(RequestTypeStr(v))
        IN  found.ok /\ found.parseFunc = DecoderOf(v.type)

\* C4: an envelope around an ExitStatusRequest is written with the tag
\* "exit-status", one around a SignalRequest with "signal", and the tag
\* written for a variant is the tag of no other variant.
C4_DistinctTags ==
    (op = "MessageWrite" /\ wres.err = NoErr) =>
        LET t == req.ChannelRequest.type
        IN  /\ t = "ExitStatusRequest" => WrittenTag = TagExitStatus
            /\ t = "SignalRequest" => WrittenTag = TagSignal
            /\ \A u \in Types \ {t} : WrittenTag # RequestTypeStr([type |-> u])

\* C5: a well-formed tag that is no key of the registry, followed by the
\* reply-flag byte, makes ParseRequestMessage return the unsupported-type
\* error and no envelope, with no payload decoder invoked.
C5_UnknownTag ==
    (/\ op = "ParseMessage"
     /\ Len(results) = 1
     /\ sent[1].tag \notin DOMAIN ChannelRequestParseFuncs
     /\ Len(rd.data) >= SSHStringLen(sent[1].tag) + 1) =>
        /\ results[1].err = ErrInvalidType
        /\ results[1].val = Nil
        /\ results[1].invoked = "none"

C5_Witness ==
    /\ op = "ParseMessage"
    /\ Len(results) = 1
    /\ sent[1].tag = TagFrobnicate
    /\ sent[1].payload.type = "ExecRequest"
    /\ cut = 0
    /\ results[1].err = ErrInvalidType

\* C6: a boolean byte 1 decodes to true and 0 to false, and any other byte
\* makes the decode fail instead of decoding to true (X11Request's and
\* ExitSignalRequest's flag, and the envelope's want-reply flag).
C6_StrictBooleans ==
    /\ (op = "DecodePayload" /\ cut = 0 /\ HasBool(sent[1].payload)) =>
          LET bb == sent[1].boolByte
              res == results[1]
          IN  /\ bb = 1 => (res.err = NoErr /\ BoolOf(res.val) = TRUE)
              /\ bb = 0 => (res.err = NoErr /\ BoolOf(res.val) = FALSE)
              /\ bb \notin {0, 1} => (res.err # NoErr /\ res.val = Nil)
    /\ (op = "ParseMessage" /\ Len(results) = 1 /\ cut = 0) =>
          LET f == sent[1].flag
              res == results[1]
          IN  /\ (f \in {0, 1} /\ res.err = NoErr) => res.val.wantReply = (f = 1)
              /\ f \notin {0, 1} => (res.err # NoErr /\ res.val = Nil)

\* C7: a successful envelope Write leaves in the buffer the message-type
\* byte, the payload's tag as a 4-byte big-endian length and the tag bytes,
\* one reply-flag byte (1 if wantReply, else 0), and from the next offset on
\* exactly what the payload's own Write leaves in that rest of the buffer;
\* the count is the sum.
C7_EnvelopeLayout ==
    (op = "MessageWrite" /\ wres.err = NoErr) =>
        LET tag == RequestTypeStr(req.ChannelRequest)
            head == <<SSH_MSG_CHANNEL_REQUEST>>
                    \o <<0, 0, Len(tag) \div 256, Len(tag) % 256>> \o tag
                    \o <<IF req.wantReply THEN 1 ELSE 0>>
            own == Write(req.ChannelRequest, SubSeq(buf0, Len(head) + 1, Len(buf0)))
        IN  /\ own.err = NoErr
            /\ buf = head \o own.buf
            /\ wres.n = Len(head) + own.n

C7_Witness ==
    /\ op = "MessageWrite"
    /\ wres.err = NoErr
    /\ req.wantReply
    /\ req.ChannelRequest.type = "ExitSignalRequest"
    /\ req.ChannelRequest.ErrorMessageUTF8 # <<>>
    /\ Len(buf) > wres.n - 1
    /\ buf[1] = SSH_MSG_CHANNEL_REQUEST

\* C8: on a truncated stream the variant's decoder and ParseRequestMessage
\* return no payload and no envelope, and the error they return is the
\* truncation error, none of another kind.
C8_TruncationPropagates ==
    /\ (op = "DecodePayload" /\ cut > 0) =>
          (results[1].val = Nil /\ results[1].err \in TruncationErrors)
    /\ (/\ op = "ParseMessage"
        /\ Len(results) = 1
        /\ cut > 0
        /\ sent[1].tag \in DOMAIN ChannelRequestParseFuncs) =>
          (results[1].val = Nil /\ results[1].err \in TruncationErrors)

\* C9: on a stream that holds exactly the variant's fields in table order,
\* the variant's decoder succeeds and every decoded field is the one encoded.
C9_DecodeFieldTables ==
    (op = "DecodePayload" /\ cut = 0 /\ sent[1].boolByte \in {0, 1}) =>
        (results[1].err = NoErr /\ results[1].val = sent[1].payload)

\* C10: every ParseRequestMessage call on a stream of well-formed messages
\* succeeds, returns the message at its place, and leaves the stream right
\* after that message (stated for the request types the registry holds, so
\* that a missing registry entry is not what decides it).
C10_CursorExactness ==
    (/\ op = "ParseMessage"
     /\ WellFormedStream
     /\ \A i \in 1..Len(sent) : sent[i].tag \in DOMAIN ChannelRequestParseFuncs) =>
        LET k == Len(results)
        IN  /\ Last(results).err = NoErr
            /\ Last(results).val = [wantReply |-> (sent[k].flag = 1),
                                    ChannelRequest |-> sent[k].payload]
            /\ rd.pos = Len(WireAll(SubSeq(sent, 1, k)))

====
